---- MODULE Spec2Model ----
(***************************************************************************)
(* LamportClock (src/2024/parprog/distributed/lamport_clock/clock.hpp):    *)
(* one std::atomic<unsigned int> counter per clock instance, read by       *)
(* get_time, advanced by local_event / send_event (fetch_add) and merged   *)
(* with a remote timestamp by receive_event (load, test, fetch_add or      *)
(* compare_exchange_strong in a retry loop).                               *)
(*                                                                         *)
(* Every step of the model is one atomic memory operation of one thread    *)
(* together with the thread-local code that follows it.  The value a call  *)
(* returns is the parameter v of the step that completes the call; what    *)
(* the caller keeps of it is the caller's state (ret), not the clock's.    *)
(*                                                                         *)
(* current_time is declared inside the do-block of receive_event and read  *)
(* by the loop condition; the model follows the evident reading: the value *)
(* loaded at the top of an iteration is the expected value of that         *)
(* iteration's compare_exchange_strong.  Outside its block the variable    *)
(* holds 0 in the model, as does received_time outside a call.             *)
(***************************************************************************)
EXTENDS Integers, FiniteSets, Sequences, TLC

\* ---------------------------------------------------------------- bounds
\* The largest value of LamportTime (UINT_MAX in the program, scaled down).
MaxTime == 7
\* The number of threads (one clock shared) or nodes (one clock each).
NThreads == 2

Modulus == MaxTime + 1
LamportTime == 0 .. MaxTime
Threads == 1 .. NThreads
Clocks == Threads
\* The number of messages the transport holds at once.
MaxInFlight == 1
\* The received timestamps tried where several threads interleave.
RecvTimes == {0, 2, MaxTime - 1, MaxTime}
\* The received timestamps tried where termination is checked.
FairRecvTimes == {2, MaxTime}
NoValue == 0 - 1

Max2(a, b) == IF a < b THEN b ELSE a

VARIABLES
    time,           \* time[c]: the counter time_ of clock c
    clock,          \* clock[t]: the clock instance thread t holds a reference to
    pc,             \* pc[t]: where thread t stands: idle, or inside receive_event
    received_time,  \* received_time[t]: the argument of t's receive_event call
    current_time,   \* current_time[t]: the local of receive_event's loop body
    wrapped,        \* some increment so far wrapped a counter past MaxTime
    ret,            \* ret[t]: the value t's latest completed call returned
    op,             \* op[t]: the name of t's latest completed call
    entry,          \* entry[t]: the counter when t's latest call was invoked
    recvd,          \* recvd[c]: the largest timestamp a completed receive_event merged into c
    msgs,           \* timestamps attached to messages in flight
    scen,           \* how far the run so far follows test1's script
    seen,           \* seen[t]: the largest value a completed call returned to t
    issued,         \* the timestamps returned so far by local, send and receive events
    first,          \* first[t]: the counter as first read by t's receive_event call
    fails,          \* fails[t]: the failed compare-exchanges of t's receive_event call
    done,           \* the number of completed local, send and receive events
    merged          \* some receive_event has ended with a successful compare-exchange

prog == <<time, clock, pc, received_time, current_time, wrapped>>
vars == <<time, clock, pc, received_time, current_time, wrapped,
          ret, op, entry, recvd, msgs, scen, seen,
          issued, first, fails, done, merged>>

\* ------------------------------------------------------- the clock's code
\* unsigned arithmetic that stops at the largest value
IncSaturating(v) == IF v = MaxTime THEN MaxTime ELSE v + 1

\* unsigned arithmetic: v + 1 in LamportTime
Inc(v) == (v + 1) % Modulus

\* time_.load()
Load(c) == time[c]

\* a fetch-add that returns the value it stored
FetchAddNew(t, v) ==
    /\ v = Inc(time[clock[t]])
    /\ time' = [time EXCEPT ![clock[t]] = Inc(time[clock[t]])]
    /\ wrapped' = (wrapped \/ time[clock[t]] = MaxTime)

\* a load in place of the fetch-add
FetchAddRead(t, v) ==
    /\ v = time[clock[t]]
    /\ UNCHANGED <<time, wrapped>>

\* time_.fetch_add(1) on t's clock, returning v
FetchAdd(t, v) ==
    /\ v = time[clock[t]]
    /\ time' = [time EXCEPT ![clock[t]] = Inc(time[clock[t]])]
    /\ wrapped' = (wrapped \/ time[clock[t]] = MaxTime)

\* the test with its comparison turned around
IsOldFlipped(r, cur) == r > cur

\* received_time < current_time
IsOld(r, cur) == r < cur

\* the desired value without the + 1
DesiredSame(r) == r

\* the desired value of the compare-exchange
Desired(r) == Inc(r)

\* a compare-exchange that always reports failure
ExpectedNever(t) == FALSE

\* a plain store in place of the compare-exchange
ExpectedBlind(t) == TRUE

\* whether time_.compare_exchange_strong(current_time, ...) finds the expected value
Expected(t) == time[clock[t]] = current_time[t]

\* a get_time that advances the counter as the event calls do
get_time_bump(t, v) ==
    /\ pc[t] = "idle"
    /\ FetchAdd(t, v)
    /\ UNCHANGED <<clock, pc, received_time, current_time>>

\* LamportTime get_time() const
get_time(t, v) ==
    /\ pc[t] = "idle"
    /\ v = Load(clock[t])
    /\ UNCHANGED prog

\* LamportTime local_event()
local_event(t, v) ==
    /\ pc[t] = "idle"
    /\ FetchAdd(t, v)
    /\ UNCHANGED <<clock, pc, received_time, current_time>>

\* a send_event with a fetch-add of its own that returns the stored value
send_event_own(t, v) ==
    /\ pc[t] = "idle"
    /\ FetchAddNew(t, v)
    /\ UNCHANGED <<clock, pc, received_time, current_time>>

\* LamportTime send_event()
send_event(t, v) == local_event(t, v)

\* receive_event(r) is invoked
receive_call(t, r) ==
    /\ pc[t] = "idle"
    /\ pc' = [pc EXCEPT ![t] = "load"]
    /\ received_time' = [received_time EXCEPT ![t] = r]
    /\ UNCHANGED <<time, clock, current_time, wrapped>>

\* auto current_time = get_time(); if (received_time < current_time) ...
receive_load(t) ==
    /\ pc[t] = "load"
    /\ IF IsOld(received_time[t], Load(clock[t]))
         THEN /\ pc' = [pc EXCEPT ![t] = "fadd"]
              /\ UNCHANGED current_time
         ELSE /\ pc' = [pc EXCEPT ![t] = "cas"]
              /\ current_time' = [current_time EXCEPT ![t] = Load(clock[t])]
    /\ UNCHANGED <<time, clock, received_time, wrapped>>

\* return time_.fetch_add(1);
receive_stale(t, v) ==
    /\ pc[t] = "fadd"
    /\ FetchAdd(t, v)
    /\ pc' = [pc EXCEPT ![t] = "idle"]
    /\ received_time' = [received_time EXCEPT ![t] = 0]
    /\ UNCHANGED <<clock, current_time>>

\* compare_exchange_strong succeeds; return received_time + 1;
receive_merge(t, v) ==
    /\ pc[t] = "cas"
    /\ Expected(t)
    /\ v = Inc(received_time[t])
    /\ time' = [time EXCEPT ![clock[t]] = Desired(received_time[t])]
    /\ wrapped' = (wrapped \/ received_time[t] = MaxTime)
    /\ pc' = [pc EXCEPT ![t] = "idle"]
    /\ received_time' = [received_time EXCEPT ![t] = 0]
    /\ current_time' = [current_time EXCEPT ![t] = 0]
    /\ UNCHANGED clock

\* compare_exchange_strong fails; the loop starts over
receive_retry(t) ==
    /\ pc[t] = "cas"
    /\ ~Expected(t)
    /\ pc' = [pc EXCEPT ![t] = "load"]
    /\ current_time' = [current_time EXCEPT ![t] = 0]
    /\ UNCHANGED <<time, clock, received_time, wrapped>>

\* ------------------------------------------------- what the callers keep
\* recvd after a receive_event(r) of t completed
Merged(t) ==
    recvd' = [recvd EXCEPT ![clock[t]] = Max2(recvd[clock[t]], received_time[t])]

\* the caller keeps the value v its call o returned
Returned(t, v, o) ==
    /\ ret' = [ret EXCEPT ![t] = v]
    /\ op' = [op EXCEPT ![t] = o]

\* the counter as it stands when t invokes a call
Invoked(t) ==
    entry' = [entry EXCEPT ![t] = time[clock[t]]]

\* the caller has now seen v as well
Seen(t, v) ==
    seen' = [seen EXCEPT ![t] = Max2(seen[t], v)]

\* a message to node d carries the timestamp v; a full transport drops it
Posted(d, v) ==
    msgs' = IF Cardinality(msgs) < MaxInFlight THEN msgs \cup {<<d, v>>} ELSE msgs

\* the timestamp v has been given to an event
Issued(v) ==
    issued' = issued \cup {v}

\* t's receive_event call is invoked: nothing read, nothing failed yet
Entered(t) ==
    /\ first' = [first EXCEPT ![t] = NoValue]
    /\ fails' = [fails EXCEPT ![t] = 0]

\* t's receive_event call has returned: its locals are gone
Left(t) ==
    /\ first' = [first EXCEPT ![t] = NoValue]
    /\ fails' = [fails EXCEPT ![t] = 0]

\* t's receive_event call reads the counter; its first read is kept
FirstRead(t) ==
    first' = [first EXCEPT ![t] = IF first[t] = NoValue THEN time[clock[t]] ELSE first[t]]

\* one more compare-exchange of t's call has failed (counted up to MaxTime + 2)
Failed(t) ==
    fails' = [fails EXCEPT ![t] = IF fails[t] < MaxTime + 2 THEN fails[t] + 1 ELSE fails[t]]

\* one more event call has completed (counted up to MaxTime + 1)
Completed ==
    done' = IF done < MaxTime + 1 THEN done + 1 ELSE done

\* what the callers of Spec, SeqSpec, TrackSpec and NetSpec keep, recvd apart
callers == <<ret, op, entry, msgs, scen, seen>>

\* test1: the timestamps received in turn, and get_time() after each
Script == <<3, 2, 1, 6>>
TestTimes == <<4, 5, 6, 7>>

\* scen after receive_event(r) is invoked
Scripted(r) ==
    scen' = IF scen >= 0 /\ scen < Len(Script) /\ r = Script[scen + 1]
              THEN scen + 1
              ELSE NoValue

InitProg ==
    /\ time = [c \in Clocks |-> 0]
    /\ received_time = [t \in Threads |-> 0]
    /\ current_time = [t \in Threads |-> 0]
    /\ wrapped = FALSE
    /\ ret = [t \in Threads |-> NoValue]
    /\ op = [t \in Threads |-> "none"]
    /\ entry = [t \in Threads |-> 0]
    /\ recvd = [c \in Clocks |-> NoValue]
    /\ msgs = {}
    /\ scen = 0
    /\ seen = [t \in Threads |-> NoValue]
    /\ issued = {}
    /\ first = [t \in Threads |-> NoValue]
    /\ fails = [t \in Threads |-> 0]
    /\ done = 0
    /\ merged = FALSE

\* --------------------------------- Spec: any threads sharing one clock
Init ==
    /\ InitProg
    /\ clock = [t \in Threads |-> 1]
    /\ pc = [t \in Threads |-> "idle"]

\* thread t makes a call; get_time, local_event and send_event return at once
Invoke(t) ==
    \/ \E v \in LamportTime : get_time(t, v) /\ UNCHANGED <<ret, op, entry, recvd, msgs, scen, seen, issued, first, fails, done, merged>>
    \/ \E v \in LamportTime : local_event(t, v) /\ UNCHANGED <<ret, op, entry, recvd, msgs, scen, seen, issued, first, fails, done, merged>>
    \/ \E v \in LamportTime : send_event(t, v) /\ UNCHANGED <<ret, op, entry, recvd, msgs, scen, seen, issued, first, fails, done, merged>>
    \/ \E r \in RecvTimes : receive_call(t, r) /\ UNCHANGED <<ret, op, entry, recvd, msgs, scen, seen, issued, first, fails, done, merged>>

\* thread t takes the next step of its receive_event call
Proceed(t) ==
    \/ receive_load(t) /\ UNCHANGED <<ret, op, entry, recvd, msgs, scen, seen, issued, first, fails, done, merged>>
    \/ \E v \in LamportTime : receive_stale(t, v) /\ Merged(t) /\ UNCHANGED <<ret, op, entry, msgs, scen, seen, issued, first, fails, done, merged>>
    \/ \E v \in LamportTime : receive_merge(t, v) /\ Merged(t) /\ UNCHANGED <<ret, op, entry, msgs, scen, seen, issued, first, fails, done, merged>>
    \/ receive_retry(t) /\ UNCHANGED <<ret, op, entry, recvd, msgs, scen, seen, issued, first, fails, done, merged>>

Next == \E t \in Threads : Invoke(t) \/ Proceed(t)

Spec == Init /\ [][Next]_vars

\* ---- FairSpec: Spec with fewer received timestamps and a fair scheduler
FairInvoke(t) ==
    \/ \E v \in LamportTime : get_time(t, v) /\ UNCHANGED <<ret, op, entry, recvd, msgs, scen, seen, issued, first, fails, done, merged>>
    \/ \E v \in LamportTime : local_event(t, v) /\ UNCHANGED <<ret, op, entry, recvd, msgs, scen, seen, issued, first, fails, done, merged>>
    \/ \E v \in LamportTime : send_event(t, v) /\ UNCHANGED <<ret, op, entry, recvd, msgs, scen, seen, issued, first, fails, done, merged>>
    \/ \E r \in FairRecvTimes : receive_call(t, r) /\ UNCHANGED <<ret, op, entry, recvd, msgs, scen, seen, issued, first, fails, done, merged>>

FairNext == \E t \in Threads : FairInvoke(t) \/ Proceed(t)

\* a thread inside receive_event is not held up for ever by its scheduler
FairSpec == Init /\ [][FairNext]_vars /\ \A t \in Threads : WF_vars(Proceed(t))

\* ------- MixSpec: Spec, with a record of the timestamps given to events
MixInvoke(t) ==
    \/ \E v \in LamportTime : get_time(t, v) /\ UNCHANGED <<callers, recvd, issued, first, fails, done, merged>>
    \/ \E v \in LamportTime : local_event(t, v) /\ Issued(v) /\ UNCHANGED <<callers, recvd, first, fails, done, merged>>
    \/ \E v \in LamportTime : send_event(t, v) /\ Issued(v) /\ UNCHANGED <<callers, recvd, first, fails, done, merged>>
    \/ \E r \in RecvTimes : receive_call(t, r) /\ UNCHANGED <<callers, recvd, issued, first, fails, done, merged>>

MixProceed(t) ==
    \/ receive_load(t) /\ UNCHANGED <<callers, recvd, issued, first, fails, done, merged>>
    \/ \E v \in LamportTime : receive_stale(t, v) /\ Issued(v) /\ UNCHANGED <<callers, recvd, first, fails, done, merged>>
    \/ \E v \in LamportTime : receive_merge(t, v) /\ Issued(v) /\ UNCHANGED <<callers, recvd, first, fails, done, merged>>
    \/ receive_retry(t) /\ UNCHANGED <<callers, recvd, issued, first, fails, done, merged>>

MixNext == \E t \in Threads : MixInvoke(t) \/ MixProceed(t)

MixSpec == Init /\ [][MixNext]_vars

\* ---- RetrySpec: Spec followed up to the first wraparound of the counter,
\* with each receive_event call's first read and its failed
\* compare-exchanges counted
RetryInvoke(t) ==
    \/ ~wrapped /\ \E v \in LamportTime : get_time(t, v) /\ UNCHANGED <<callers, recvd, issued, first, fails, done, merged>>
    \/ ~wrapped /\ \E v \in LamportTime : local_event(t, v) /\ UNCHANGED <<callers, recvd, issued, first, fails, done, merged>>
    \/ ~wrapped /\ \E v \in LamportTime : send_event(t, v) /\ UNCHANGED <<callers, recvd, issued, first, fails, done, merged>>
    \/ ~wrapped /\ \E r \in FairRecvTimes : receive_call(t, r) /\ Entered(t) /\ UNCHANGED <<callers, recvd, issued, done, merged>>

RetryProceed(t) ==
    \/ ~wrapped /\ receive_load(t) /\ FirstRead(t) /\ UNCHANGED <<callers, recvd, issued, fails, done, merged>>
    \/ ~wrapped /\ \E v \in LamportTime : receive_stale(t, v) /\ Left(t) /\ UNCHANGED <<callers, recvd, issued, done, merged>>
    \/ ~wrapped /\ \E v \in LamportTime : receive_merge(t, v) /\ Left(t) /\ UNCHANGED <<callers, recvd, issued, done, merged>>
    \/ ~wrapped /\ receive_retry(t) /\ Failed(t) /\ UNCHANGED <<callers, recvd, issued, first, done, merged>>

RetryNext == \E t \in Threads : RetryInvoke(t) \/ RetryProceed(t)

RetrySpec == Init /\ [][RetryNext]_vars

\* ---- CountSpec: Spec followed up to the first wraparound of the counter,
\* with the completed event calls counted
CountInvoke(t) ==
    \/ ~wrapped /\ \E v \in LamportTime : get_time(t, v) /\ UNCHANGED <<callers, recvd, issued, first, fails, done, merged>>
    \/ ~wrapped /\ \E v \in LamportTime : local_event(t, v) /\ Completed /\ UNCHANGED <<callers, recvd, issued, first, fails, merged>>
    \/ ~wrapped /\ \E v \in LamportTime : send_event(t, v) /\ Completed /\ UNCHANGED <<callers, recvd, issued, first, fails, merged>>
    \/ ~wrapped /\ \E r \in FairRecvTimes : receive_call(t, r) /\ UNCHANGED <<callers, recvd, issued, first, fails, done, merged>>

CountProceed(t) ==
    \/ ~wrapped /\ receive_load(t) /\ UNCHANGED <<callers, recvd, issued, first, fails, done, merged>>
    \/ ~wrapped /\ \E v \in LamportTime : receive_stale(t, v) /\ Completed /\ Merged(t) /\ UNCHANGED <<callers, issued, first, fails, merged>>
    \/ ~wrapped /\ \E v \in LamportTime : receive_merge(t, v) /\ Completed /\ Merged(t) /\ merged' = TRUE /\ UNCHANGED <<callers, issued, first, fails>>
    \/ ~wrapped /\ receive_retry(t) /\ UNCHANGED <<callers, recvd, issued, first, fails, done, merged>>

CountNext == \E t \in Threads : CountInvoke(t) \/ CountProceed(t)

CountSpec == Init /\ [][CountNext]_vars

\* ------------------------ SeqSpec: one caller, no concurrent writers
SeqNext ==
    \/ \E v \in LamportTime :
          get_time(1, v) /\ Returned(1, v, "get_time") /\ Invoked(1)
            /\ UNCHANGED <<recvd, msgs, scen, seen, issued, first, fails, done, merged>>
    \/ \E v \in LamportTime :
          local_event(1, v) /\ Returned(1, v, "local_event") /\ Invoked(1)
            /\ scen' = NoValue /\ UNCHANGED <<recvd, msgs, seen, issued, first, fails, done, merged>>
    \/ \E v \in LamportTime :
          send_event(1, v) /\ Returned(1, v, "send_event") /\ Invoked(1)
            /\ scen' = NoValue /\ UNCHANGED <<recvd, msgs, seen, issued, first, fails, done, merged>>
    \/ \E r \in LamportTime :
          receive_call(1, r) /\ Invoked(1) /\ Scripted(r)
            /\ UNCHANGED <<ret, op, recvd, msgs, seen, issued, first, fails, done, merged>>
    \/ receive_load(1) /\ UNCHANGED <<ret, op, entry, recvd, msgs, scen, seen, issued, first, fails, done, merged>>
    \/ \E v \in LamportTime :
          receive_stale(1, v) /\ Returned(1, v, "receive_event") /\ Merged(1)
            /\ UNCHANGED <<entry, msgs, scen, seen, issued, first, fails, done, merged>>
    \/ \E v \in LamportTime :
          receive_merge(1, v) /\ Returned(1, v, "receive_event") /\ Merged(1)
            /\ UNCHANGED <<entry, msgs, scen, seen, issued, first, fails, done, merged>>

SeqSpec == Init /\ [][SeqNext]_vars

\* ------- UniqSpec: the threads race one local_event each on a clock at V
\* thread 1 owns the clock; the others are not yet started
UniqInit ==
    /\ InitProg
    /\ clock = [t \in Threads |-> 1]
    /\ pc = [t \in Threads |-> IF t = 1 THEN "idle" ELSE "new"]

Spawned == \A t \in Threads : pc[t] # "new"

\* thread 1 alone brings the counter to some V
Prepare == ~Spawned /\ SeqNext

\* the threads start, sharing the clock; V is the counter as it stands
Spawn ==
    /\ ~Spawned
    /\ pc[1] = "idle"
    /\ pc' = [t \in Threads |-> "idle"]
    /\ ret' = [t \in Threads |-> NoValue]
    /\ op' = [t \in Threads |-> "none"]
    /\ entry' = [t \in Threads |-> time[1]]
    /\ UNCHANGED <<time, clock, received_time, current_time, wrapped, recvd, msgs, scen, seen, issued, first, fails, done, merged>>

\* thread t makes its one local_event call
Race(t) ==
    /\ Spawned
    /\ op[t] = "none"
    /\ \E v \in LamportTime : local_event(t, v) /\ Returned(t, v, "local_event")
    /\ UNCHANGED <<entry, recvd, msgs, scen, seen, issued, first, fails, done, merged>>

UniqNext ==
    \/ Prepare
    \/ Spawn
    \/ \E t \in Threads : Race(t)

UniqSpec == UniqInit /\ [][UniqNext]_vars

\* ----- TrackSpec: Spec, with every caller remembering what it was returned
TrackNext ==
    \E t \in Threads :
        \/ \E v \in LamportTime : get_time(t, v) /\ Seen(t, v) /\ UNCHANGED <<ret, op, entry, recvd, msgs, scen, issued, first, fails, done, merged>>
        \/ \E v \in LamportTime : local_event(t, v) /\ Seen(t, v) /\ UNCHANGED <<ret, op, entry, recvd, msgs, scen, issued, first, fails, done, merged>>
        \/ \E v \in LamportTime : send_event(t, v) /\ Seen(t, v) /\ UNCHANGED <<ret, op, entry, recvd, msgs, scen, issued, first, fails, done, merged>>
        \/ \E r \in RecvTimes : receive_call(t, r) /\ UNCHANGED <<ret, op, entry, recvd, msgs, scen, seen, issued, first, fails, done, merged>>
        \/ receive_load(t) /\ UNCHANGED <<ret, op, entry, recvd, msgs, scen, seen, issued, first, fails, done, merged>>
        \/ \E v \in LamportTime : receive_stale(t, v) /\ Seen(t, v) /\ UNCHANGED <<ret, op, entry, recvd, msgs, scen, issued, first, fails, done, merged>>
        \/ \E v \in LamportTime : receive_merge(t, v) /\ Seen(t, v) /\ UNCHANGED <<ret, op, entry, recvd, msgs, scen, issued, first, fails, done, merged>>
        \/ receive_retry(t) /\ UNCHANGED <<ret, op, entry, recvd, msgs, scen, seen, issued, first, fails, done, merged>>

TrackSpec == Init /\ [][TrackNext]_vars

\* ------------- NetSpec: every node has its own clock and a single thread
NetInit ==
    /\ InitProg
    /\ clock = [t \in Threads |-> t]
    /\ pc = [t \in Threads |-> "idle"]

NetNext ==
    \E n \in Threads :
        \/ \E v \in LamportTime :
              local_event(n, v) /\ Returned(n, v, "local_event")
                /\ UNCHANGED <<entry, recvd, msgs, scen, seen, issued, first, fails, done, merged>>
        \/ \E v \in LamportTime : \E d \in Threads \ {n} :
              send_event(n, v) /\ Returned(n, v, "send_event") /\ Posted(d, v)
                /\ UNCHANGED <<entry, recvd, scen, seen, issued, first, fails, done, merged>>
        \/ \E m \in msgs :
              m[1] = n /\ receive_call(n, m[2]) /\ msgs' = msgs \ {m}
                /\ UNCHANGED <<ret, op, entry, recvd, scen, seen, issued, first, fails, done, merged>>
        \/ receive_load(n) /\ UNCHANGED <<ret, op, entry, recvd, msgs, scen, seen, issued, first, fails, done, merged>>
        \/ \E v \in LamportTime :
              receive_stale(n, v) /\ Returned(n, v, "receive_event")
                /\ UNCHANGED <<entry, recvd, msgs, scen, seen, issued, first, fails, done, merged>>
        \/ \E v \in LamportTime :
              receive_merge(n, v) /\ Returned(n, v, "receive_event")
                /\ UNCHANGED <<entry, recvd, msgs, scen, seen, issued, first, fails, done, merged>>

NetSpec == NetInit /\ [][NetNext]_vars

\* C2: as long as no step has wrapped a counter, no step of any thread
\* (load, fetch-add, compare-exchange) decreases the counter.
C2_Monotonic ==
    [][(~wrapped') => \A c \in Clocks : time'[c] >= time[c]]_vars

\* the counter rose by fetch-adds and by a merge, unwrapped, while another
\* thread stands before a compare-exchange whose expected value is out of date
C2_Witness ==
    /\ ~wrapped
    /\ recvd[1] = 2
    /\ time[1] > 3
    /\ \E t \in Threads : pc[t] = "cas" /\ current_time[t] < time[1]

C7_CausalReply ==
    [][(~wrapped') =>
        \A t \in Threads : \A v \in LamportTime :
            (local_event(t, v) \/ send_event(t, v)) => v > recvd[clock[t]]]_vars

\* a receive_event(s) completed and events were stamped after it
C7_Witness ==
    /\ ~wrapped
    /\ recvd[1] >= 0
    /\ time[1] > recvd[1] + 2

C5_Unique ==
    (Spawned /\ entry[1] + NThreads <= MaxTime) =>
        /\ \A t, u \in Threads :
              (t # u /\ op[t] = "local_event" /\ op[u] = "local_event") => ret[t] # ret[u]
        /\ (\A t \in Threads : op[t] = "local_event") => time[1] = entry[1] + NThreads

\* all threads have returned, from a clock that stood at V = 3, thread 1 last
C5_Witness ==
    /\ Spawned
    /\ \A t \in Threads : op[t] = "local_event"
    /\ entry[1] = 3
    /\ \A t \in Threads : ret[1] >= ret[t]

\* C8: every local_event, send_event or receive_event returns more than every
\* value its caller was returned by an earlier completed call on the clock
\* (absent wraparound).
C8_PerThreadMonotonic ==
    [][(~wrapped') =>
        \A t \in Threads : \A v \in LamportTime :
            (local_event(t, v) \/ send_event(t, v) \/ receive_stale(t, v) \/ receive_merge(t, v))
                => v > seen[t]]_vars

\* C1: clock condition.  As long as no counter has wrapped, the timestamp of
\* every event is greater than the timestamp of the event before it on the
\* same node, and the timestamp of every receive is greater than the send
\* timestamp the message carries; the order of timestamps then respects the
\* transitive closure of these two relations.
C1_ClockCondition ==
    [][(~wrapped') =>
        \A n \in Threads : \A v \in LamportTime :
            /\ ((local_event(n, v) \/ send_event(n, v)
                    \/ receive_stale(n, v) \/ receive_merge(n, v))
                  /\ ret[n] # NoValue) => ret[n] < v
            /\ (receive_stale(n, v) \/ receive_merge(n, v)) => received_time[n] < v]_vars

\* C9: every receive_event call that has started returns.
C9_ReceiveReturns ==
    \A t \in Threads : (pc[t] # "idle") ~> (pc[t] = "idle")

\* C9, amended: every receive_event call that has started returns, unless the
\* counter wraps around.
C9_ReceiveReturnsUnwrapped ==
    \A t \in Threads : (pc[t] # "idle") ~> (pc[t] = "idle" \/ wrapped)

\* a receive_event has returned, the counter unwrapped, while another call
\* has a failed compare-exchange behind it and a stale timestamp in hand
C9_Witness ==
    /\ ~wrapped
    /\ recvd[1] = 2
    /\ \E t \in Threads : pc[t] = "fadd" /\ received_time[t] = 2

C13_ReturnsNewValue ==
    [][\A v \in LamportTime :
        (local_event(1, v) \/ send_event(1, v)) => v = time'[1]]_vars

C16_ReturnConvention ==
    [][\A t \in Threads :
        /\ (pc[t] = "fadd" /\ pc'[t] = "idle") => \A v \in LamportTime :
              receive_stale(t, v) =>
                  (v = time[clock[t]] /\ time'[clock[t]] = (v + 1) % Modulus
                     /\ v # time'[clock[t]])
        /\ (pc[t] = "cas" /\ pc'[t] = "idle") => \A v \in LamportTime :
              receive_merge(t, v) =>
                  (v = (received_time[t] + 1) % Modulus /\ v = time'[clock[t]])]_vars

\* a merge of MaxTime - 1 has stored MaxTime, and another thread is about to
\* end its call in the stale branch
C16_Witness ==
    /\ ~wrapped
    /\ recvd[1] = MaxTime - 1
    /\ time[1] = MaxTime
    /\ \E t \in Threads : pc[t] = "fadd"

C15_DistinctStamps ==
    [][(~wrapped') =>
        \A t \in Threads : \A v \in LamportTime :
            (local_event(t, v) \/ send_event(t, v) \/ receive_stale(t, v) \/ receive_merge(t, v))
                => v \notin issued]_vars

\* C17: a receive_event(r) call whose first read of the counter was c0 <= r
\* has at most r - c0 + 1 failed compare-exchanges (absent wraparound).
C17_BoundedRetries ==
    (~wrapped) =>
        \A t \in Threads :
            (pc[t] # "idle" /\ first[t] # NoValue /\ first[t] <= received_time[t])
                => fails[t] <= received_time[t] - first[t] + 1

\* receive_event(2) first read 0, failed three times and now takes the stale branch
C17_Witness ==
    /\ ~wrapped
    /\ \E t \in Threads :
          /\ pc[t] = "fadd"
          /\ received_time[t] = 2
          /\ first[t] = 0
          /\ fails[t] = 3

\* C18: on a clock constructed at 0, once M event calls have completed the
\* counter is at least M; with no call ended by a successful compare-exchange
\* and every call completed it is exactly M (absent wraparound).
C18_NoLostUpdate ==
    (~wrapped) =>
        /\ time[1] >= done
        /\ ((~merged) /\ (\A t \in Threads : pc[t] = "idle")) => time[1] = done

\* four calls completed, a stale receive_event(2) among them, none merged
C18_Witness ==
    /\ ~wrapped
    /\ ~merged
    /\ recvd[1] = 2
    /\ done = 4
    /\ time[1] = 4
    /\ \A t \in Threads : pc[t] = "idle"
====
